---------------------------- MODULE Spec2Model ----------------------------
(***************************************************************************)
(* Model of DxvkSubmissionQueue (src/src/dxvk/dxvk_queue.cpp): producers   *)
(* calling submit / present / synchronize / synchronizeSubmission /        *)
(* lockDeviceQueue / unlockDeviceQueue, the submitter thread               *)
(* (submitCmdLists), the finisher thread (finishCmdLists) and the          *)
(* destructor.  Every critical section of the global mutex m_mutex, from   *)
(* its acquisition to its release (on unlock, on return or inside a wait), *)
(* is one step: no thread observes the protected state in between, so      *)
(* every state of the model is a point where m_mutex is free.  The         *)
(* device-queue mutex m_mutexQueue and the three condition variables are   *)
(* modelled explicitly: a thread that waits on a condition variable stays  *)
(* in its wait set until a notify_all on that variable (or a spurious      *)
(* wake-up) moves it out; it then has to re-acquire m_mutex and evaluate   *)
(* its predicate again.                                                    *)
(***************************************************************************)
EXTENDS Naturals, Sequences, FiniteSets

\* ------------------------------------------------------------------ bounds

\* Total number of entries (submits and presents) the producers enqueue.
MaxEntries == 3

\* m_submitQueue.size() + m_finishQueue.size() <= MaxNumQueuedCommandBuffers
\* admits a submit.  The header that sets the value is not part of the
\* sources at hand; the model uses a small value.
MaxNumQueuedCommandBuffers == 1

\* --------------------------------------------------------------- constants

Producers == {"p1", "p2"}
Sub  == "sub"
Fin  == "fin"
Dtor == "dtor"
Threads == Producers \cup {Sub, Fin, Dtor}
Free == "free"

VK_SUCCESS           == "VK_SUCCESS"
VK_NOT_READY         == "VK_NOT_READY"
VK_ERROR_DEVICE_LOST == "VK_ERROR_DEVICE_LOST"
\* any other failing VkResult (e.g. VK_ERROR_OUT_OF_DEVICE_MEMORY)
VK_ERROR_OTHER       == "VK_ERROR_OTHER"

\* What cmdList->submit, presenter->presentImage and cmdList->synchronize
\* may return.
DeviceResults == {VK_SUCCESS, VK_ERROR_DEVICE_LOST, VK_ERROR_OTHER}

Ids == 1..MaxEntries

\* slot[i] is NoSlot while no status slot was passed in with entry i.
NoSlot == "none"

VARIABLES
  m_submitQueue,   \* std::queue<DxvkSubmitEntry>: sequence of entries
  m_finishQueue,   \* std::queue<DxvkSubmitEntry>
  m_pending,       \* std::atomic<uint32_t>
  m_lastError,     \* std::atomic<VkResult>
  m_stopped,       \* std::atomic<bool>
  m_mutexQueue,    \* owner of m_mutexQueue, or Free
  pc,              \* position of every thread
  arg,             \* synchronizeSubmission: the status slot waited for
  slot,            \* DxvkSubmitStatus::result of the slot passed with present i
  nextId,          \* number of entries enqueued so far
  subEntry,        \* submitCmdLists: local entry
  subStatus,       \* submitCmdLists: local status
  finEntry,        \* finishCmdLists: local entry
  finStatus,       \* finishCmdLists: local status
  subCalled,       \* history: a device call was made for subEntry
  dispatched,      \* history: ids in the order the submitter dispatched them
  recycled         \* history: the command lists handed to recycleCommandList,
                   \* in order, each with whether synchronize() was called

vars == <<m_submitQueue, m_finishQueue, m_pending, m_lastError, m_stopped,
          m_mutexQueue, pc, arg, slot, nextId, subEntry, subStatus,
          finEntry, finStatus, subCalled, dispatched, recycled>>

queues  == <<m_submitQueue, m_finishQueue, m_pending>>
subLoc  == <<subEntry, subStatus, subCalled>>
finLoc  == <<finEntry, finStatus>>
history == <<dispatched, recycled>>

NoEntry == [id |-> 0, kind |-> "none"]

\* DxvkSubmitEntry built by submit (cmdList set) or present (presenter and
\* status set).
SubmitEntry(i)  == [id |-> i, kind |-> "submit"]
PresentEntry(i) == [id |-> i, kind |-> "present"]

IsSubmit(e)  == e.kind = "submit"      \* entry.submit.cmdList != nullptr
IsPresent(e) == e.kind = "present"     \* entry.present.presenter != nullptr
HasStatus(e) == e.kind = "present"     \* entry.status != nullptr

Init ==
  /\ m_submitQueue = << >>
  /\ m_finishQueue = << >>
  /\ m_pending = 0
  /\ m_lastError = VK_SUCCESS
  /\ m_stopped = FALSE
  /\ m_mutexQueue = Free
  /\ pc = [t \in Threads |->
             IF t \in Producers THEN "idle"
             ELSE IF t = Dtor THEN "alive" ELSE "lock"]
  /\ arg = [p \in Producers |-> 0]
  /\ slot = [i \in Ids |-> NoSlot]
  /\ nextId = 0
  /\ subEntry = NoEntry
  /\ subStatus = VK_NOT_READY
  /\ finEntry = NoEntry
  /\ finStatus = VK_NOT_READY
  /\ subCalled = FALSE
  /\ dispatched = << >>
  /\ recycled = << >>

\* ------------------------------------------------------ condition variables

\* m_appendCond.notify_all(): the submitter, if it waits, has to re-acquire
\* m_mutex and re-evaluate its predicate.
NotifyAppend(f) ==
  [f EXCEPT ![Sub] = IF @ = "wait" THEN "lock" ELSE @]

\* m_submitCond.notify_all(): wakes the finisher and the producers waiting in
\* synchronize and synchronizeSubmission.
NotifySubmit(f) ==
  [t \in Threads |->
     IF t = Fin /\ f[t] = "wait" THEN "lock"
     ELSE IF t \in Producers /\ f[t] = "sync_wait" THEN "sync_woken"
     ELSE IF t \in Producers /\ f[t] = "syncsub_wait" THEN "syncsub_woken"
     ELSE f[t]]

\* m_finishCond.notify_all(): wakes the producers waiting in submit.
NotifyFinish(f) ==
  [t \in Threads |->
     IF t \in Producers /\ f[t] = "submit_wait" THEN "submit_woken" ELSE f[t]]

\* A condition variable may wake a waiter spuriously; the waiter then
\* re-acquires m_mutex and re-evaluates its predicate.
WokenPc(v) ==
  CASE v = "wait"         -> "lock"
    [] v = "submit_wait"  -> "submit_woken"
    [] v = "sync_wait"    -> "sync_woken"
    [] v = "syncsub_wait" -> "syncsub_woken"
    [] OTHER              -> v

SpuriousWake(t) ==
  /\ pc[t] \in {"wait", "submit_wait", "sync_wait", "syncsub_wait"}
  /\ t \in Producers \cup {Sub, Fin}
  /\ pc' = [pc EXCEPT ![t] = WokenPc(@)]
  /\ UNCHANGED <<queues, m_lastError, m_stopped, m_mutexQueue, arg,
                 slot, nextId, subLoc, finLoc, history>>

\* ------------------------------------------------------------- producers
\* A producer's critical section of m_mutex (from the unique_lock to its
\* release on return or inside a wait) is one step, taken when m_mutex is
\* free: no other thread can observe the queues in between.

\* The object is alive: the destructor has not been entered.  Calling a
\* member function during or after destruction is not modelled.
Alive == pc[Dtor] = "alive"

\* Calls that will enqueue an entry and have not done so yet.
Enqueueing ==
  {p \in Producers : pc[p] \in {"submit_wait", "submit_woken"}}

MayEnqueue == nextId + Cardinality(Enqueueing) < MaxEntries

\* the predicate of submit with < in place of <=
SubmitPredStrict ==
  Len(m_submitQueue) + Len(m_finishQueue) < MaxNumQueuedCommandBuffers

\* the predicate of submit looking at the submit queue only
SubmitPredPendingOnly ==
  Len(m_submitQueue) <= MaxNumQueuedCommandBuffers

\* submit, line 57: the predicate of m_finishCond.wait
SubmitPred ==
  Len(m_submitQueue) + Len(m_finishQueue) <= MaxNumQueuedCommandBuffers

\* submit made to take the device-queue mutex before it pushes
SubmitBodyQueueLocked(p) ==
  /\ IF SubmitPred /\ m_mutexQueue = Free
        THEN /\ m_pending' = m_pending + 1
             /\ m_submitQueue' = Append(m_submitQueue, SubmitEntry(nextId + 1))
             /\ nextId' = nextId + 1
             /\ pc' = NotifyAppend([pc EXCEPT ![p] = "idle"])
        ELSE /\ pc' = [pc EXCEPT ![p] = "submit_wait"]
             /\ UNCHANGED <<m_pending, m_submitQueue, nextId>>
  /\ UNCHANGED <<m_finishQueue, m_lastError, m_stopped, m_mutexQueue,
                 arg, slot, subLoc, finLoc, history>>

\* submit, lines 56-66, holding m_mutex: wait on m_finishCond while the
\* predicate is false (releasing m_mutex), else push the entry and return.
SubmitBody(p) ==
  /\ IF SubmitPred
        THEN /\ m_pending' = m_pending + 1
             /\ m_submitQueue' = Append(m_submitQueue, SubmitEntry(nextId + 1))
             /\ nextId' = nextId + 1
             /\ pc' = NotifyAppend([pc EXCEPT ![p] = "idle"])
        ELSE /\ pc' = [pc EXCEPT ![p] = "submit_wait"]
             /\ UNCHANGED <<m_pending, m_submitQueue, nextId>>
  /\ UNCHANGED <<m_finishQueue, m_lastError, m_stopped, m_mutexQueue,
                 arg, slot, subLoc, finLoc, history>>

\* submit, lines 52-66: a call
Submit(p) ==
  /\ Alive /\ MayEnqueue
  /\ pc[p] = "idle"
  /\ SubmitBody(p)

\* submit, line 56: a woken waiter re-acquires m_mutex inside wait and
\* evaluates the predicate again
SubmitWoken(p) ==
  /\ pc[p] = "submit_woken"
  /\ SubmitBody(p)

\* present made to wait for room like submit (the body is defined below)
PresentIfRoom(p) ==
  /\ Alive /\ MayEnqueue
  /\ pc[p] = "idle"
  /\ SubmitPred
  /\ m_submitQueue' = Append(m_submitQueue, PresentEntry(nextId + 1))
  /\ slot' = [slot EXCEPT ![nextId + 1] = VK_NOT_READY]
  /\ nextId' = nextId + 1
  /\ pc' = NotifyAppend([pc EXCEPT ![p] = "idle"])
  /\ UNCHANGED <<m_finishQueue, m_pending, m_lastError, m_stopped,
                 m_mutexQueue, arg, subLoc, finLoc, history>>

\* present, lines 69-79: push the entry with its status slot (which the
\* caller initialised to VK_NOT_READY), notify m_appendCond and return.
Present(p) ==
  /\ Alive /\ MayEnqueue
  /\ pc[p] = "idle"
  /\ m_submitQueue' = Append(m_submitQueue, PresentEntry(nextId + 1))
  /\ slot' = [slot EXCEPT ![nextId + 1] = VK_NOT_READY]
  /\ nextId' = nextId + 1
  /\ pc' = NotifyAppend([pc EXCEPT ![p] = "idle"])
  /\ UNCHANGED <<m_finishQueue, m_pending, m_lastError, m_stopped,
                 m_mutexQueue, arg, subLoc, finLoc, history>>

\* synchronizeSubmission, line 88: the predicate of m_submitCond.wait
SynchronizeSubmissionPred(s) == slot[s] # VK_NOT_READY

\* synchronizeSubmission, lines 87-90, holding m_mutex
SynchronizeSubmissionBody(p, s) ==
  /\ IF SynchronizeSubmissionPred(s)
        THEN /\ pc' = [pc EXCEPT ![p] = "idle"]
             /\ arg' = [arg EXCEPT ![p] = 0]
        ELSE /\ pc' = [pc EXCEPT ![p] = "syncsub_wait"]
             /\ arg' = [arg EXCEPT ![p] = s]
  /\ UNCHANGED <<queues, m_lastError, m_stopped, m_mutexQueue, slot,
                 nextId, subLoc, finLoc, history>>

\* synchronizeSubmission, lines 82-90: a call, for a status slot that was
\* passed to present before
SynchronizeSubmission(p, s) ==
  /\ Alive
  /\ pc[p] = "idle"
  /\ slot[s] # NoSlot
  /\ SynchronizeSubmissionBody(p, s)

\* synchronizeSubmission, line 87: a woken waiter re-acquires m_mutex
SynchronizeSubmissionWoken(p) ==
  /\ pc[p] = "syncsub_woken"
  /\ SynchronizeSubmissionBody(p, arg[p])

\* synchronize without a wait
SynchronizePredNone == TRUE

\* synchronize, line 98: the predicate of m_submitCond.wait
SynchronizePred == m_submitQueue = << >>

\* synchronize, lines 97-100, holding m_mutex
SynchronizeBody(p) ==
  /\ IF SynchronizePred
        THEN pc' = [pc EXCEPT ![p] = "sync_done"]
        ELSE pc' = [pc EXCEPT ![p] = "sync_wait"]
  /\ UNCHANGED <<queues, m_lastError, m_stopped, m_mutexQueue, arg,
                 slot, nextId, subLoc, finLoc, history>>

\* synchronize, lines 93-100: a call
Synchronize(p) ==
  /\ Alive
  /\ pc[p] = "idle"
  /\ SynchronizeBody(p)

\* synchronize, line 97: a woken waiter re-acquires m_mutex
SynchronizeWoken(p) ==
  /\ pc[p] = "sync_woken"
  /\ SynchronizeBody(p)

\* synchronize, line 100: the call returns to the producer
SynchronizeReturn(p) ==
  /\ pc[p] = "sync_done"
  /\ pc' = [pc EXCEPT ![p] = "idle"]
  /\ UNCHANGED <<queues, m_lastError, m_stopped, m_mutexQueue, arg,
                 slot, nextId, subLoc, finLoc, history>>

\* lockDeviceQueue, line 105: m_mutexQueue.lock() by an external caller
LockDeviceQueue(p) ==
  /\ Alive
  /\ pc[p] = "idle"
  /\ m_mutexQueue = Free
  /\ m_mutexQueue' = p
  /\ UNCHANGED <<queues, m_lastError, m_stopped, pc, arg, slot,
                 nextId, subLoc, finLoc, history>>

\* unlockDeviceQueue, line 111: m_mutexQueue.unlock() by the holder
UnlockDeviceQueue(p) ==
  /\ pc[p] = "idle"
  /\ m_mutexQueue = p
  /\ m_mutexQueue' = Free
  /\ UNCHANGED <<queues, m_lastError, m_stopped, pc, arg, slot,
                 nextId, subLoc, finLoc, history>>

\* ------------------------------------------------------------- submitter

\* submitCmdLists, line 124: the predicate of m_appendCond.wait
SubWaitPred(q) == m_stopped \/ q # << >>

\* m_submitQueue.back() in place of front()
SubBackEntry(q) == q[Len(q)]

\* submitCmdLists, line 130: m_submitQueue.front(); the entry stays in the
\* queue until line 198
SubFrontEntry(q) == Head(q)

\* submitCmdLists, lines 122-131, holding m_mutex, with q the submit queue
\* and f the threads' positions: leave when stopped, wait on m_appendCond
\* while the queue is empty, else move the head into the local entry (it
\* stays in the queue, line 130) and release m_mutex.
SubLoopTop(q, f) ==
  IF m_stopped \/ ~SubWaitPred(q)
    THEN /\ pc' = [f EXCEPT ![Sub] = IF m_stopped THEN "done" ELSE "wait"]
         /\ subEntry' = NoEntry
         /\ subStatus' = VK_NOT_READY
         /\ subCalled' = FALSE
    ELSE /\ pc' = [f EXCEPT ![Sub] = "dispatch"]
         /\ subEntry' = SubFrontEntry(q)
         /\ subStatus' = VK_NOT_READY
         /\ subCalled' = FALSE

\* submitCmdLists, line 120 (entry of the thread) or line 123 (woken inside
\* m_appendCond.wait): acquire m_mutex, then lines 122-131.
SubEnter ==
  /\ pc[Sub] = "lock"
  /\ SubLoopTop(m_submitQueue, pc)
  /\ UNCHANGED <<queues, m_lastError, m_stopped, m_mutexQueue, arg, slot,
                 nextId, finLoc, history>>

\* the device used whatever m_lastError is
SubUsesDeviceAlways(err) == TRUE

\* submitCmdLists, line 136: the device is used unless m_lastError is
\* VK_ERROR_DEVICE_LOST
SubUsesDevice(err) == err # VK_ERROR_DEVICE_LOST

\* the status never stored
SubAfterStatusNoStore(e) == "relock"

\* Where the submitter goes once it has a status: line 164 (entry.status)
SubAfterStatus(e) == IF HasStatus(e) THEN "publish" ELSE "relock"

\* submitCmdLists, lines 136 and 158-162: read m_lastError; after a device
\* loss nothing is submitted and the status is VK_ERROR_DEVICE_LOST.
SubCheck ==
  /\ pc[Sub] = "dispatch"
  /\ IF SubUsesDevice(m_lastError)
       THEN /\ pc' = [pc EXCEPT ![Sub] = "lockq"]
            /\ UNCHANGED <<subStatus, dispatched>>
       ELSE /\ subStatus' = VK_ERROR_DEVICE_LOST
            /\ dispatched' = Append(dispatched, subEntry.id)
            /\ pc' = [pc EXCEPT ![Sub] = SubAfterStatus(subEntry)]
  /\ UNCHANGED <<queues, m_lastError, m_stopped, m_mutexQueue, arg, slot,
                 nextId, subEntry, subCalled, finLoc, recycled>>

\* submitCmdLists, line 138: std::lock_guard lockQueue(m_mutexQueue) waits
\* until the device-queue mutex is free
SubQueueLockable == m_mutexQueue = Free

\* the device call entered without the lock guard
SubLockQueueMissing ==
  /\ pc[Sub] = "lockq"
  /\ pc' = [pc EXCEPT ![Sub] = "call"]
  /\ UNCHANGED <<queues, m_lastError, m_stopped, m_mutexQueue, arg, slot,
                 nextId, subLoc, finLoc, history>>

SubLockQueue ==
  /\ pc[Sub] = "lockq"
  /\ SubQueueLockable
  /\ m_mutexQueue' = Sub
  /\ pc' = [pc EXCEPT ![Sub] = "call"]
  /\ UNCHANGED <<queues, m_lastError, m_stopped, arg, slot, nextId, subLoc,
                 finLoc, history>>

\* the device call with the device-queue mutex kept after it
SubDeviceCallKeepsLock ==
  /\ pc[Sub] = "call"
  /\ \E r \in DeviceResults : subStatus' = r
  /\ subCalled' = TRUE
  /\ dispatched' = Append(dispatched, subEntry.id)
  /\ pc' = [pc EXCEPT ![Sub] = SubAfterStatus(subEntry)]
  /\ UNCHANGED <<queues, m_lastError, m_stopped, m_mutexQueue, arg, slot,
                 nextId, subEntry, finLoc, recycled>>

\* submitCmdLists, lines 141-157, holding m_mutexQueue: cmdList->submit or
\* presenter->presentImage returns r; the lock guard is released at line 158.
SubDeviceCall ==
  /\ pc[Sub] = "call"
  /\ \E r \in DeviceResults : subStatus' = r
  /\ subCalled' = TRUE
  /\ dispatched' = Append(dispatched, subEntry.id)
  /\ m_mutexQueue' = Free
  /\ pc' = [pc EXCEPT ![Sub] = SubAfterStatus(subEntry)]
  /\ UNCHANGED <<queues, m_lastError, m_stopped, arg, slot, nextId, subEntry,
                 finLoc, recycled>>

\* submitCmdLists, lines 164-165: entry.status->result = status
SubPublish ==
  /\ pc[Sub] = "publish"
  /\ slot' = [slot EXCEPT ![subEntry.id] = subStatus]
  /\ pc' = [pc EXCEPT ![Sub] = "relock"]
  /\ UNCHANGED <<queues, m_lastError, m_stopped, m_mutexQueue, arg, nextId,
                 subLoc, finLoc, history>>

\* submitCmdLists, line 198: m_submitQueue.pop()
SubPop(q) == Tail(q)

\* submitCmdLists, lines 170-176: the finish queue after the entry
SubPassOn(e, status) ==
  IF status = VK_SUCCESS /\ IsSubmit(e)
    THEN Append(m_finishQueue, e) ELSE m_finishQueue

\* the status stored in m_lastError whatever it is
SubErrorAnyStatus(e, status) == status

\* submitCmdLists, lines 170-175: m_lastError after the entry
SubError(e, status) ==
  IF status # VK_SUCCESS /\ (status = VK_ERROR_DEVICE_LOST \/ IsSubmit(e))
    THEN status ELSE m_lastError

\* submitCmdLists, lines 168-199 and, m_mutex still held, lines 122-131 of
\* the next round: a successful submit goes to the finish queue; a failed
\* submit, or a device loss, is stored in m_lastError; the head of the submit
\* queue is popped and m_submitCond is notified.
SubFinish ==
  /\ pc[Sub] = "relock"
  /\ m_finishQueue' = SubPassOn(subEntry, subStatus)
  /\ m_lastError' = SubError(subEntry, subStatus)
  /\ m_submitQueue' = SubPop(m_submitQueue)
  /\ SubLoopTop(m_submitQueue', NotifySubmit(pc))
  /\ UNCHANGED <<m_pending, m_stopped, m_mutexQueue, arg, slot, nextId,
                 finLoc, history>>

\* submitCmdLists: the critical sections of m_mutex, lines 120-131 and
\* lines 168-199 with 122-131
SubMutexSection == SubEnter \/ SubFinish

\* -------------------------------------------------------------- finisher

\* finishCmdLists, line 215: the predicate of m_submitCond.wait
FinWaitPred(q) == m_stopped \/ q # << >>

\* the finisher taking the back of the finish queue
FinLoopTopBack(q, f) ==
  IF m_stopped \/ ~FinWaitPred(q)
    THEN /\ pc' = [f EXCEPT ![Fin] = IF m_stopped THEN "done" ELSE "wait"]
         /\ finEntry' = NoEntry
         /\ finStatus' = VK_NOT_READY
    ELSE /\ pc' = [f EXCEPT ![Fin] = "load"]
         /\ finEntry' = q[Len(q)]
         /\ finStatus' = VK_NOT_READY

\* finishCmdLists, lines 210-226, holding m_mutex, with q the finish queue
\* and f the threads' positions
FinLoopTop(q, f) ==
  IF m_stopped \/ ~FinWaitPred(q)
    THEN /\ pc' = [f EXCEPT ![Fin] = IF m_stopped THEN "done" ELSE "wait"]
         /\ finEntry' = NoEntry
         /\ finStatus' = VK_NOT_READY
    ELSE /\ pc' = [f EXCEPT ![Fin] = "load"]
         /\ finEntry' = Head(q)
         /\ finStatus' = VK_NOT_READY

\* finishCmdLists, line 208 (entry of the thread) or line 214 (woken inside
\* m_submitCond.wait): acquire m_mutex, then lines 210-226.
FinEnter ==
  /\ pc[Fin] = "lock"
  /\ FinLoopTop(m_finishQueue, pc)
  /\ UNCHANGED <<queues, m_lastError, m_stopped, m_mutexQueue, arg, slot,
                 nextId, subLoc, history>>

\* finishCmdLists, line 228: VkResult status = m_lastError.load()
FinLoad ==
  /\ pc[Fin] = "load"
  /\ finStatus' = m_lastError
  /\ pc' = [pc EXCEPT ![Fin] = "sync"]
  /\ UNCHANGED <<queues, m_lastError, m_stopped, m_mutexQueue, arg, slot,
                 nextId, subLoc, finEntry, history>>

\* the finisher made to wait for the device-queue mutex around synchronize
FinSyncQueueLocked ==
  /\ pc[Fin] = "sync"
  /\ m_mutexQueue = Free
  /\ \E r \in DeviceResults :
       LET status == IF finStatus # VK_ERROR_DEVICE_LOST THEN r ELSE finStatus
       IN /\ finStatus' = status
          /\ m_lastError' = IF status # VK_SUCCESS THEN status ELSE m_lastError
  /\ recycled' = Append(recycled,
                   [id |-> finEntry.id,
                    sync |-> finStatus # VK_ERROR_DEVICE_LOST])
  /\ pc' = [pc EXCEPT ![Fin] = "relock"]
  /\ UNCHANGED <<queues, m_stopped, m_mutexQueue, arg, slot, nextId, subLoc,
                 finEntry, dispatched>>

\* the finisher dropping the command list after a device loss
FinSyncDropsLost ==
  /\ pc[Fin] = "sync"
  /\ \E r \in DeviceResults :
       LET status == IF finStatus # VK_ERROR_DEVICE_LOST THEN r ELSE finStatus
       IN /\ finStatus' = status
          /\ m_lastError' = IF status # VK_SUCCESS THEN status ELSE m_lastError
  /\ recycled' = IF finStatus # VK_ERROR_DEVICE_LOST
                   THEN Append(recycled, [id |-> finEntry.id, sync |-> TRUE])
                   ELSE recycled
  /\ pc' = [pc EXCEPT ![Fin] = "relock"]
  /\ UNCHANGED <<queues, m_stopped, m_mutexQueue, arg, slot, nextId, subLoc,
                 finEntry, dispatched>>

\* finishCmdLists, lines 230-241: cmdList->synchronize() unless the status
\* read is VK_ERROR_DEVICE_LOST; a failing status is stored in m_lastError;
\* then notifySignals, reset and recycleCommandList.
FinSync ==
  /\ pc[Fin] = "sync"
  /\ \E r \in DeviceResults :
       LET status == IF finStatus # VK_ERROR_DEVICE_LOST THEN r ELSE finStatus
       IN /\ finStatus' = status
          /\ m_lastError' = IF status # VK_SUCCESS THEN status ELSE m_lastError
  /\ recycled' = Append(recycled,
                   [id |-> finEntry.id,
                    sync |-> finStatus # VK_ERROR_DEVICE_LOST])
  /\ pc' = [pc EXCEPT ![Fin] = "relock"]
  /\ UNCHANGED <<queues, m_stopped, m_mutexQueue, arg, slot, nextId, subLoc,
                 finEntry, dispatched>>

\* finishCmdLists, lines 243-247 and, m_mutex still held, lines 210-226 of
\* the next round
FinFinish ==
  /\ pc[Fin] = "relock"
  /\ m_pending' = m_pending - 1
  /\ m_finishQueue' = Tail(m_finishQueue)
  /\ FinLoopTop(m_finishQueue', NotifyFinish(pc))
  /\ UNCHANGED <<m_submitQueue, m_lastError, m_stopped, m_mutexQueue, arg,
                 slot, nextId, subLoc, history>>

\* ------------------------------------------------------------ destructor

\* ~DxvkSubmissionQueue, lines 40-42.  The destructor runs when no producer
\* is inside a member function.
DtorStore ==
  /\ pc[Dtor] = "alive"
  /\ \A p \in Producers : pc[p] = "idle"
  /\ m_stopped' = TRUE
  /\ pc' = [pc EXCEPT ![Dtor] = "notify"]
  /\ UNCHANGED <<queues, m_lastError, m_mutexQueue, arg, slot,
                 nextId, subLoc, finLoc, history>>

\* the destructor without its notify_all calls
DtorNotifyMissing ==
  /\ pc[Dtor] = "notify"
  /\ pc' = [pc EXCEPT ![Dtor] = "join_submit"]
  /\ UNCHANGED <<queues, m_lastError, m_stopped, m_mutexQueue, arg,
                 slot, nextId, subLoc, finLoc, history>>

\* ~DxvkSubmissionQueue, lines 44-45
DtorNotify ==
  /\ pc[Dtor] = "notify"
  /\ pc' = NotifySubmit(NotifyAppend([pc EXCEPT ![Dtor] = "join_submit"]))
  /\ UNCHANGED <<queues, m_lastError, m_stopped, m_mutexQueue, arg,
                 slot, nextId, subLoc, finLoc, history>>

\* ~DxvkSubmissionQueue, line 47: m_submitThread.join()
DtorJoinSubmit ==
  /\ pc[Dtor] = "join_submit"
  /\ pc[Sub] = "done"
  /\ pc' = [pc EXCEPT ![Dtor] = "join_finish"]
  /\ UNCHANGED <<queues, m_lastError, m_stopped, m_mutexQueue, arg,
                 slot, nextId, subLoc, finLoc, history>>

\* ~DxvkSubmissionQueue, line 48: m_finishThread.join()
DtorJoinFinish ==
  /\ pc[Dtor] = "join_finish"
  /\ pc[Fin] = "done"
  /\ pc' = [pc EXCEPT ![Dtor] = "destroyed"]
  /\ UNCHANGED <<queues, m_lastError, m_stopped, m_mutexQueue, arg,
                 slot, nextId, subLoc, finLoc, history>>

\* --------------------------------------------------------- specification

Submitter ==
  \/ SubEnter \/ SubCheck \/ SubLockQueue \/ SubDeviceCall \/ SubPublish
  \/ SubFinish

Finisher ==
  \/ FinEnter \/ FinLoad \/ FinSync \/ FinFinish

\* The steps a producer takes inside a call it has begun.
ProducerStep(p) ==
  \/ SubmitWoken(p)
  \/ SynchronizeSubmissionWoken(p)
  \/ SynchronizeWoken(p)
  \/ SynchronizeReturn(p)

\* A producer begins a call.
ProducerCall(p) ==
  \/ Submit(p)
  \/ Present(p)
  \/ \E s \in Ids : SynchronizeSubmission(p, s)
  \/ Synchronize(p)
  \/ LockDeviceQueue(p)

Destructor ==
  \/ DtorStore \/ DtorNotify \/ DtorJoinSubmit \/ DtorJoinFinish

Next ==
  \/ Submitter
  \/ Finisher
  \/ \E p \in Producers : ProducerCall(p)
  \/ \E p \in Producers : ProducerStep(p)
  \/ \E p \in Producers : UnlockDeviceQueue(p)
  \/ \E t \in Threads : SpuriousWake(t)
  \/ Destructor

Spec == Init /\ [][Next]_vars

\* The same program with one producer thread, and with the scheduling the
\* liveness properties rest on: a worker thread that can take a step
\* eventually takes it, a producer that was woken eventually re-acquires
\* m_mutex, the submitter eventually gets m_mutexQueue if it is free again
\* and again, and the destructor, once entered, goes on.  Nothing obliges a
\* producer to begin a call or to call unlockDeviceQueue, the destructor to
\* run, or a condition variable to wake a waiter spuriously.
FairProducers == {"p1"}

FairNext ==
  \/ Submitter
  \/ Finisher
  \/ \E p \in FairProducers : ProducerCall(p)
  \/ \E p \in FairProducers : ProducerStep(p)
  \/ \E p \in FairProducers : UnlockDeviceQueue(p)
  \/ \E t \in Threads : SpuriousWake(t)
  \/ Destructor

Fairness ==
  /\ WF_vars(Submitter)
  /\ SF_vars(SubLockQueue)
  /\ WF_vars(Finisher)
  /\ \A p \in FairProducers : WF_vars(ProducerStep(p))
  /\ WF_vars(DtorNotify \/ DtorJoinSubmit \/ DtorJoinFinish)

FairSpec == Init /\ [][FairNext]_vars /\ Fairness

\* ----------------------------------------------------------------- properties

\* Number of submit entries in a queue
NumSubmits(q) == Cardinality({i \in 1..Len(q) : IsSubmit(q[i])})

\* A producer is blocked in submit on m_finishCond.
BlockedInSubmit(p) == pc[p] \in {"submit_wait", "submit_woken"}

\* C1: the submitter dispatches the entries (device call, or short-circuit to
\* VK_ERROR_DEVICE_LOST) in exactly the order in which they were pushed onto
\* the submit queue: the k-th dispatch is that of the k-th entry enqueued.
C1_FifoDispatch ==
  \A k \in 1..Len(dispatched) : dispatched[k] = k

C1_Witness ==
  /\ Len(dispatched) >= 2
  /\ Len(m_submitQueue) >= 2

\* Only submits were enqueued, the finisher has popped nothing and no device
\* call has failed: every admitted submit is still in one of the queues.
OnlySubmitsNothingPopped ==
  /\ nextId = m_pending
  /\ m_lastError = VK_SUCCESS

QueueLockReleased == []<>(m_mutexQueue \notin Producers)

\* No device call has failed.
NoDeviceError ==
  /\ m_lastError = VK_SUCCESS
  /\ subStatus \in {VK_NOT_READY, VK_SUCCESS}
  /\ finStatus \in {VK_NOT_READY, VK_SUCCESS}
  /\ \A s \in Ids : slot[s] \in {NoSlot, VK_NOT_READY, VK_SUCCESS}

\* C3: after a device loss, with no shutdown and the device-queue lock not
\* held forever, every producer blocked in submit or waiting on a status slot
\* is eventually released.
C3_ReleasedAfterDeviceLoss ==
  QueueLockReleased =>
    \A p \in Producers :
      [](m_lastError = VK_ERROR_DEVICE_LOST
           /\ pc[p] \in {"submit_wait", "syncsub_wait"}
         => <>(pc[p] = "idle" \/ m_stopped))

\* C4: with no device error, no shutdown and the device-queue lock not held
\* forever, every call to submit eventually returns.
C4_SubmitReturns ==
  (QueueLockReleased /\ []NoDeviceError /\ []~m_stopped) =>
    \A p \in Producers : (pc[p] = "submit_wait") ~> (pc[p] = "idle")

\* The tail of the submit queue is a present entry that was pushed when a
\* submit would have had to wait.
PresentPushedWhenFull ==
  /\ Len(m_submitQueue) + Len(m_finishQueue) > MaxNumQueuedCommandBuffers + 1
  /\ IsPresent(m_submitQueue[Len(m_submitQueue)])

\* C5: present never waits on backpressure: whatever the queues hold, a
\* producer that may call present can push its entry, and the step that
\* pushes a present entry leaves no producer in a wait.
C5_PresentNeverWaits ==
  /\ [](\A p \in Producers :
          (Alive /\ MayEnqueue /\ pc[p] = "idle") => ENABLED Present(p))
  /\ [][(nextId' = nextId + 1 /\ IsPresent(m_submitQueue'[Len(m_submitQueue')]))
          => \A p \in Producers : pc[p] = "idle" => pc'[p] = "idle"]_vars

C5_Witness == PresentPushedWhenFull

\* C6: at every point where m_mutex is free, m_pending is the number of
\* submit entries in the submit queue plus the length of the finish queue.
C6_PendingCount ==
  m_pending = NumSubmits(m_submitQueue) + Len(m_finishQueue)

C8_SynchronizeReturn ==
  [][\A p \in Producers :
       (pc'[p] = "sync_done" /\ pc[p] # "sync_done") =>
          /\ m_submitQueue = << >>
          /\ Len(dispatched) = nextId
          /\ \A s \in Ids : slot[s] # VK_NOT_READY]_vars

C8_Witness ==
  \E p \in Producers :
    /\ pc[p] = "sync_done"
    /\ Len(dispatched) >= 2
    /\ \E s \in Ids : slot[s] \in DeviceResults

\* C9: a status slot passed into present leaves VK_NOT_READY exactly once:
\* once written it never changes again and, unless shutdown begins or an
\* external caller keeps the device-queue lock forever, it is eventually
\* written and a synchronizeSubmission call waiting for it eventually returns.
C9_StatusSlotWrittenOnce ==
  /\ [][\A s \in Ids :
          /\ slot[s] \in DeviceResults => slot'[s] = slot[s]
          /\ slot[s] = VK_NOT_READY
               => slot'[s] \in DeviceResults \cup {VK_NOT_READY}]_vars
  /\ QueueLockReleased =>
       /\ \A s \in Ids :
            (slot[s] = VK_NOT_READY) ~> (slot[s] \in DeviceResults \/ m_stopped)
       /\ \A p \in Producers :
            (pc[p] = "syncsub_wait") ~> (pc[p] = "idle" \/ m_stopped)

C9_Witness ==
  /\ \E s \in Ids : slot[s] \in DeviceResults
  /\ \E s \in Ids : slot[s] = VK_NOT_READY
  /\ \E p \in Producers : pc[p] = "syncsub_woken"
  /\ ~m_stopped

C12_Shutdown ==
  /\ [][m_stopped =>
          /\ (pc'[Sub] = "dispatch" => pc[Sub] = "dispatch")
          /\ (subEntry' # subEntry => subEntry' = NoEntry)
          /\ (pc'[Fin] = "load" => pc[Fin] = "load")
          /\ (finEntry' # finEntry => finEntry' = NoEntry)]_vars
  /\ QueueLockReleased =>
       (m_stopped ~> (/\ pc[Sub] = "done"
                      /\ pc[Fin] = "done"
                      /\ pc[Dtor] = "destroyed"))

C12_Witness ==
  /\ pc[Dtor] = "destroyed"
  /\ pc[Sub] = "done"
  /\ pc[Fin] = "done"
  /\ m_submitQueue # << >>
  /\ m_finishQueue # << >>

\* C13: m_lastError is sticky: once it is VK_ERROR_DEVICE_LOST no later
\* store, by the submitter or by the finisher, replaces it with another
\* result.
C13_LastErrorSticky ==
  [][m_lastError = VK_ERROR_DEVICE_LOST
       => m_lastError' = VK_ERROR_DEVICE_LOST]_vars

\* C14: the submitter never holds m_mutex and m_mutexQueue together: it
\* owns m_mutexQueue exactly while it is inside the device call block, which
\* it enters only after it released m_mutex, and each of its critical
\* sections of m_mutex begins and ends with m_mutexQueue not its own.
C14_NeverBothMutexes ==
  /\ [](m_mutexQueue = Sub <=> pc[Sub] = "call")
  /\ [][SubMutexSection => (m_mutexQueue # Sub /\ m_mutexQueue' # Sub)]_vars
  /\ [][(m_mutexQueue' = Sub /\ m_mutexQueue # Sub)
          => (pc[Sub] = "lockq" /\ ~SubMutexSection)]_vars
  /\ [][(pc'[Sub] \in {"publish", "relock"} /\ pc[Sub] = "call")
          => m_mutexQueue' = Free]_vars

C14_Witness ==
  /\ m_mutexQueue = Sub
  /\ pc[Sub] = "call"
  /\ Len(dispatched) >= 1
  /\ m_lastError = VK_ERROR_OTHER

\* The submit entries enqueued so far: submit passes no status slot.
Submitted == {i \in 1..nextId : slot[i] = NoSlot}

\* The ids of the command lists recycled so far.
RecycledIds == {recycled[k].id : k \in 1..Len(recycled)}

InFinishQueue(a) == \E i \in 1..Len(m_finishQueue) : m_finishQueue[i].id = a

InSubmitQueue(a) == \E i \in 1..Len(m_submitQueue) : m_submitQueue[i].id = a

\* C17: at every point where m_mutex is free, every submit entry that was
\* enqueued and whose command list has not been recycled is in exactly one
\* of the submit queue and the finish queue.
C17_InExactlyOneQueue ==
  \A a \in Submitted :
    a \notin RecycledIds => (InSubmitQueue(a) <=> ~InFinishQueue(a))

\* C18: the finisher never takes the device-queue mutex: none of its steps
\* needs or changes the owner of m_mutexQueue, so whoever holds it, and for
\* however long, every entry in the finish queue is eventually recycled and
\* popped (unless shutdown begins), and each pop notifies m_finishCond: the
\* producers waiting in submit are woken.
C18_FinisherNeedsNoQueueLock ==
  /\ [](m_mutexQueue # Fin)
  /\ [](pc[Fin] \in {"lock", "load", "sync", "relock"} => ENABLED Finisher)
  /\ [][(pc'[Fin] # pc[Fin] /\ pc[Fin] \in {"lock", "load", "sync", "relock"})
          => m_mutexQueue' = m_mutexQueue]_vars
  /\ [][Len(m_finishQueue') < Len(m_finishQueue) =>
          /\ Head(m_finishQueue).id \in RecycledIds
          /\ \A p \in Producers :
               pc[p] = "submit_wait" => pc'[p] = "submit_woken"]_vars
  /\ \A a \in Ids :
       InFinishQueue(a)
         ~> ((a \in RecycledIds /\ ~InFinishQueue(a)) \/ m_stopped)

C18_Witness ==
  /\ m_mutexQueue \in Producers
  /\ pc[Sub] = "lockq"
  /\ subEntry.id = 2
  /\ Len(recycled) = 1
  /\ recycled[1].id = 1
  /\ m_finishQueue = << >>
  /\ pc[Fin] = "wait"
  /\ ~m_stopped

\* C19: with any interleaving of the producers and the workers, the submit
\* queue and the finish queue together never hold more than
\* MaxNumQueuedCommandBuffers + 1 submit entries: a submit entry is pushed
\* only when the two queues, present entries included, hold at most
\* MaxNumQueuedCommandBuffers entries.
C19_SubmitEntriesBounded ==
  /\ NumSubmits(m_submitQueue) + NumSubmits(m_finishQueue)
       <= MaxNumQueuedCommandBuffers + 1
  /\ NumSubmits(m_finishQueue) = Len(m_finishQueue)
  /\ (\E p \in Producers : pc[p] = "idle" /\ Alive /\ MayEnqueue
         /\ Len(m_submitQueue) + Len(m_finishQueue)
              > MaxNumQueuedCommandBuffers)
       => \A p \in Producers : ~ENABLED (Submit(p) /\ nextId' = nextId + 1)

C19_Witness ==
  /\ NumSubmits(m_submitQueue) + NumSubmits(m_finishQueue)
       = MaxNumQueuedCommandBuffers + 1
  /\ NumSubmits(m_submitQueue) >= 1
  /\ Len(m_finishQueue) >= 1
  /\ \E p \in Producers : pc[p] = "submit_wait"

\* C20: m_lastError never returns to VK_SUCCESS: every store into it, by the
\* submitter after a dispatch or by the finisher after synchronize, stores
\* the failing status that worker holds.
C20_NeverBackToSuccess ==
  /\ [][m_lastError # VK_SUCCESS => m_lastError' # VK_SUCCESS]_vars
  /\ [][m_lastError' # m_lastError =>
          /\ m_lastError' \in {VK_ERROR_DEVICE_LOST, VK_ERROR_OTHER}
          /\ \/ (pc[Sub] = "relock" /\ m_lastError' = subStatus)
             \/ (pc[Fin] = "sync" /\ m_lastError' = finStatus')]_vars
  /\ [][(pc[Sub] = "relock" /\ pc'[Sub] # "relock"
           /\ subStatus = VK_SUCCESS) => m_lastError' = m_lastError]_vars

C20_Witness ==
  /\ m_lastError = VK_ERROR_OTHER
  /\ pc[Fin] = "relock"
  /\ finStatus = VK_SUCCESS
  /\ pc[Sub] = "relock"
  /\ subStatus = VK_SUCCESS

=============================================================================
